---- MODULE Spec2Model ----
(***************************************************************************)
(* Task lifecycle reconciliation of the progress overlay.                  *)
(*                                                                         *)
(* The repository holds two variants of the useTasks hook:                 *)
(*   - src/unnamed/part_001      session-aware hook: event types           *)
(*       task_started / task_complete / task_error / session_stopped,      *)
(*       purge of stale tasks of the same session, 5 min cleanup interval  *)
(*       that DELETES very stale active tasks;                             *)
(*   - src/src/hooks/useTasks.ts hook with event types start / complete /  *)
(*       error and a 30 s interval that DEMOTES stale active tasks to      *)
(*       error.                                                            *)
(* The variable impl selects the variant a behaviour runs; it never        *)
(* changes.  The task table is the React state `tasks`, a JavaScript Map,  *)
(* modelled as the sequence of its values in insertion order.  Every       *)
(* setTasks(updater) call is one atomic step computed from the latest      *)
(* table, as React runs queued updaters one at a time; SpecQueue models    *)
(* the update queue itself.                                                *)
(***************************************************************************)
EXTENDS Integers, Sequences, FiniteSets, TLC

VARIABLES
  impl,            \* which variant of the hook runs
  tasks,           \* useState<Map<string, Task>>: the committed task table
  settings,        \* useSettings: the settings record
  lastOp,          \* log of the last step, read by the properties only
  intervalActive,  \* the setInterval handle of the hook has not been cleared
  pending,         \* React's queue of setTasks updaters not yet processed
  serial,          \* the table had every queued updater run at once, alone
  twin,            \* the table of a second run fed other background flags
  isVisible,       \* useState(true): the committed visibility of the overlay
  queuedVisible,   \* the value of the last setIsVisible call not yet rendered
  hideTimer,       \* the setTimeout of App's auto-hide effect: off, armed, due
  keepDue,         \* the keep-visible effect is to run for the last commit
  hideDue,         \* App's auto-hide effect is to run for the last commit
  minimizing,      \* handleMinimize awaits invoke("hide_window")
  userHid,         \* the last write of isVisible requested was handleMinimize's
  isLoaded,        \* useSettings: useState(false)
  storage,         \* localStorage item "progress-overlay-settings"
  settingsQueue,   \* setSettings calls not yet rendered
  queuedLoaded,    \* setIsLoaded(true) was called and is not yet rendered
  loadDue,         \* the load effect is to run (once, after the first commit)
  saveDue,         \* the save effect is to run for the last commit
  windowTask,      \* NotificationWindow: task_id of the parsed task, or null
  progress,        \* NotificationWindow: useState<number | null>(null)
  notifStatus,     \* NotificationWindow status: "active" | "complete" | "error"
  closeArmed,      \* a 2000 ms close timer is pending
  closed           \* the notification window was closed

\* the visibility state of the hook and of App
overlay ==
  <<isVisible, queuedVisible, hideTimer, keepDue, hideDue, minimizing, userHid>>

\* the state of useSettings next to the settings record
store == <<isLoaded, storage, settingsQueue, queuedLoaded, loadDue, saveDue>>

\* the state of the notification window
notification == <<windowTask, progress, notifStatus, closeArmed, closed>>

vars ==
  <<impl, tasks, settings, lastOp, intervalActive, pending, serial, twin,
    overlay, store, notification>>

\* the state of the hook's effects and of React's update queue
effects ==
  <<intervalActive, pending, serial, twin, overlay, store, notification>>

----------------------------------------------------------------------------
(* Program constants *)

MAX_COMPLETED_TASKS == 5

SESSION_STALE_MS == 2000

STALE_THRESHOLD_MS == 300000

STALE_TASK_TIMEOUT == 30000

MinRecentTasks == 1

MaxRecentTasks == 10

DEFAULT_SETTINGS ==
  [position |-> "bottom-right", alwaysOnTop |-> TRUE, opacity |-> 95,
   maxRecentTasks |-> 5, autoHide |-> FALSE]

----------------------------------------------------------------------------
(* Input domains *)

Impls == {"part_001", "useTasks.ts"}

\* the value of an optional field that is absent from an event or a task
Undefined == "undefined"

TaskIds == {"t1", "t2"}

SessionIds == {"s1", "s2"}

\* producer timestamps (ms) of start events: 3000 - 1000 is exactly the
\* session threshold, 4000 - 1000 exceeds it, 1000 - 4000 is negative
StartTimestamps == {1000, 3000, 4000}

\* producer timestamps (ms) of complete / error events: before and after the
\* latest start
EndTimestamps == {3000, 5000}

\* the background flag carried by start events; the flag is copied into the
\* task and read by no transition
Backgrounds == {FALSE}

StaleThreshold(i) ==
  IF i = "part_001" THEN STALE_THRESHOLD_MS ELSE STALE_TASK_TIMEOUT

\* a wall-clock reading at which every task started in StartTimestamps is
\* past the staleness threshold
LateClock(i) == 4000 + StaleThreshold(i) + 1

\* wall-clock readings of the interval callback: for a task started at 1000,
\* exactly the staleness threshold later and one millisecond past it; and a
\* late reading
Clock(i) == {1000 + StaleThreshold(i), 1000 + StaleThreshold(i) + 1, LateClock(i)}

StartType(i) == IF i = "part_001" THEN "task_started" ELSE "start"

CompleteType(i) == IF i = "part_001" THEN "task_complete" ELSE "complete"

ErrorType(i) == IF i = "part_001" THEN "task_error" ELSE "error"

\* a task-event payload; tool, description and subagent_type are optional
\* and left out by the events drawn here, so the defaults apply
Event(type, id, session, ts, bg) ==
  [type |-> type, task_id |-> id, session_id |-> session, timestamp |-> ts,
   background |-> bg, tool |-> Undefined, description |-> Undefined,
   subagent_type |-> Undefined]

StartEvents(i) ==
  { Event(StartType(i), id, s, ts, bg) :
      id \in TaskIds,
      s \in (IF i = "part_001" THEN SessionIds \cup {Undefined} ELSE {Undefined}),
      ts \in StartTimestamps, bg \in Backgrounds }

EndEvents(i) ==
  { Event(ty, id, Undefined, ts, FALSE) :
      ty \in {CompleteType(i), ErrorType(i)}, id \in TaskIds, ts \in EndTimestamps }

StopEvents(i) ==
  IF i = "part_001"
  THEN { Event("session_stopped", "", s, 5000, FALSE) : s \in SessionIds \cup {Undefined} }
  ELSE {}

TaskEvents(i) == StartEvents(i) \cup EndEvents(i) \cup StopEvents(i)

----------------------------------------------------------------------------
(* JavaScript Map<string, Task> as the sequence of its values in insertion *)
(* order; the key of a value is its id field.                              *)

\* JavaScript truthiness of an optional string
Truthy(x) == x # Undefined /\ x # ""

\* a || b
OrElse(a, b) == IF Truthy(a) THEN a ELSE b

MapHas(m, id) == \E k \in 1..Len(m) : m[k].id = id

MapGet(m, id) == m[CHOOSE k \in 1..Len(m) : m[k].id = id]

\* variant of MapSet for a list push: the value is appended even when the key
\* is present
MapSetAppend(m, id, t) == Append(m, t)

\* Map.prototype.set: an existing key keeps its position, a new key is appended
MapSet(m, id, t) ==
  IF MapHas(m, id)
  THEN [k \in 1..Len(m) |-> IF m[k].id = id THEN t ELSE m[k]]
  ELSE Append(m, t)

MapDelete(m, id) == SelectSeq(m, LAMBDA t : t.id # id)

Keys(m) == { m[k].id : k \in 1..Len(m) }

HasEndTime(t) == "endTime" \in DOMAIN t

\* {...existing, status, endTime}
WithEnd(t, status, endTime) ==
  [f \in DOMAIN t \cup {"endTime"} |->
     IF f = "status" THEN status ELSE IF f = "endTime" THEN endTime ELSE t[f]]

----------------------------------------------------------------------------
(* The setTasks updater of the task-event listener *)

Terminal(t) == t.status = "completed" \/ t.status = "error"

\* variant of SessionStale with the subtraction reversed
SessionStaleReversed(task, data) ==
  /\ task.status = "active"
  /\ task.sessionId = data.session_id
  /\ task.id # data.task_id
  /\ task.startTime - data.timestamp > SESSION_STALE_MS

\* variant of SessionStale that counts a difference of exactly 2000 ms as stale
SessionStaleInclusive(task, data) ==
  /\ task.status = "active"
  /\ task.sessionId = data.session_id
  /\ task.id # data.task_id
  /\ data.timestamp - task.startTime >= SESSION_STALE_MS

\* variant of SessionStale that spares background tasks
SessionStaleForeground(task, data) ==
  /\ task.status = "active"
  /\ ~task.background
  /\ task.sessionId = data.session_id
  /\ task.id # data.task_id
  /\ data.timestamp - task.startTime > SESSION_STALE_MS

\* part_001: condition of the stale same-session cleanup loop
SessionStale(task, data) ==
  /\ task.status = "active"
  /\ task.sessionId = data.session_id
  /\ task.id # data.task_id
  /\ data.timestamp - task.startTime > SESSION_STALE_MS

\* variant of PurgeSession with the test of data.session_id inverted
PurgeSessionInverted(m, data) ==
  IF ~Truthy(data.session_id)
  THEN SelectSeq(m, LAMBDA task : ~SessionStale(task, data))
  ELSE m

\* part_001: the cleanup loop run before the new task is inserted
PurgeSession(m, data) ==
  IF Truthy(data.session_id)
  THEN SelectSeq(m, LAMBDA task : ~SessionStale(task, data))
  ELSE m

\* variant of NewTask that stamps the task with the wall clock, not the event
NewTaskWallClock(i, data) ==
  [f \in {"id", "tool", "description", "startTime", "status", "background",
          "subagentType"} \cup (IF i = "part_001" THEN {"sessionId"} ELSE {}) |->
     CASE f = "id" -> data.task_id
       [] f = "tool" -> OrElse(data.tool, "Unknown")
       [] f = "description" -> OrElse(data.description, "Running...")
       [] f = "startTime" -> 1000 + StaleThreshold(i)
       [] f = "status" -> "active"
       [] f = "background" -> (data.background \/ FALSE)
       [] f = "subagentType" -> data.subagent_type
       [] f = "sessionId" -> data.session_id]

\* the object literal written by next.set in the start branch
NewTask(i, data) ==
  IF i = "part_001"
  THEN [id |-> data.task_id,
        tool |-> OrElse(data.tool, "Unknown"),
        description |-> OrElse(data.description, "Running..."),
        startTime |-> data.timestamp,
        status |-> "active",
        background |-> (data.background \/ FALSE),
        subagentType |-> data.subagent_type,
        sessionId |-> data.session_id]
  ELSE [id |-> data.task_id,
        tool |-> OrElse(data.tool, "Unknown"),
        description |-> OrElse(data.description, "Running..."),
        startTime |-> data.timestamp,
        status |-> "active",
        background |-> (data.background \/ FALSE),
        subagentType |-> data.subagent_type]

\* variant of ApplyStarted that spreads the existing entry under the new one
ApplyStartedMerge(i, prev, data) ==
  LET base == IF i = "part_001" THEN PurgeSession(prev, data) ELSE prev
      new  == NewTask(i, data)
      old  == IF MapHas(base, data.task_id) THEN MapGet(base, data.task_id) ELSE new
  IN  MapSet(base, data.task_id,
             [f \in DOMAIN old \cup DOMAIN new |->
                IF f \in DOMAIN new THEN new[f] ELSE old[f]])

ApplyStarted(i, prev, data) ==
  IF i = "part_001"
  THEN MapSet(PurgeSession(prev, data), data.task_id, NewTask(i, data))
  ELSE MapSet(prev, data.task_id, NewTask(i, data))

\* variant of ApplyEnded that creates the entry when the id is unknown
ApplyEndedUpsert(i, prev, data) ==
  MapSet(prev, data.task_id,
         WithEnd(IF MapHas(prev, data.task_id)
                 THEN MapGet(prev, data.task_id)
                 ELSE NewTask(i, data),
                 IF data.type = ErrorType(i) THEN "error" ELSE "completed",
                 data.timestamp))

\* variant of ApplyEnded with the branches of the status ternary swapped
ApplyEndedSwapped(i, prev, data) ==
  IF MapHas(prev, data.task_id)
  THEN MapSet(prev, data.task_id,
              WithEnd(MapGet(prev, data.task_id),
                      IF data.type = ErrorType(i) THEN "completed" ELSE "error",
                      data.timestamp))
  ELSE prev

\* variant of ApplyEnded that deletes the entry instead of rewriting it
ApplyEndedDelete(i, prev, data) == MapDelete(prev, data.task_id)

\* variant of ApplyEnded without the `if (existing)` test: spreading undefined
\* leaves an entry that holds status and endTime only
ApplyEndedUnguarded(i, prev, data) ==
  LET status == IF data.type = ErrorType(i) THEN "error" ELSE "completed" IN
  IF MapHas(prev, data.task_id)
  THEN MapSet(prev, data.task_id,
              WithEnd(MapGet(prev, data.task_id), status, data.timestamp))
  ELSE Append(prev, [status |-> status, endTime |-> data.timestamp])

\* complete / error branch: any existing entry is rewritten, whatever its status
ApplyEnded(i, prev, data) ==
  IF MapHas(prev, data.task_id)
  THEN MapSet(prev, data.task_id,
              WithEnd(MapGet(prev, data.task_id),
                      IF data.type = ErrorType(i) THEN "error" ELSE "completed",
                      data.timestamp))
  ELSE prev

\* variant of ApplyStopped scoped to the tasks of the event's session
ApplyStoppedScoped(prev, data) ==
  SelectSeq(prev, LAMBDA task :
    ~(task.status = "active" /\ task.sessionId = data.session_id))

\* part_001: session_stopped branch; data.session_id is not consulted
ApplyStopped(prev, data) == SelectSeq(prev, LAMBDA task : task.status # "active")

ApplyEvent(i, prev, data) ==
  IF data.type = StartType(i) THEN ApplyStarted(i, prev, data)
  ELSE IF data.type = CompleteType(i) \/ data.type = ErrorType(i)
       THEN ApplyEnded(i, prev, data)
  ELSE IF i = "part_001" /\ data.type = "session_stopped" THEN ApplyStopped(prev, data)
  ELSE prev

----------------------------------------------------------------------------
(* The interval callbacks *)

\* variant of IsStale with >= in place of >
IsStaleInclusive(i, task, now) ==
  task.status = "active" /\ now - task.startTime >= StaleThreshold(i)

IsStale(i, task, now) ==
  task.status = "active" /\ now - task.startTime > StaleThreshold(i)

\* variant of CleanupSweep that drops every active task once one is stale
CleanupSweepAllActive(prev, now) ==
  IF \E k \in 1..Len(prev) : IsStale("part_001", prev[k], now)
  THEN SelectSeq(prev, LAMBDA task : task.status # "active")
  ELSE prev

\* part_001: cleanup interval, deletes very stale active tasks
CleanupSweep(prev, now) ==
  IF \E k \in 1..Len(prev) : IsStale("part_001", prev[k], now)
  THEN SelectSeq(prev, LAMBDA task : ~IsStale("part_001", task, now))
  ELSE prev

\* variant of StaleSweep that follows the comment "auto-complete stale tasks"
StaleSweepCompleted(prev, now) ==
  [k \in 1..Len(prev) |->
     IF IsStale("useTasks.ts", prev[k], now)
     THEN WithEnd(prev[k], "completed", now)
     ELSE prev[k]]

\* hooks/useTasks.ts: stale-task interval, demotes stale active tasks to error
StaleSweep(prev, now) ==
  [k \in 1..Len(prev) |->
     IF IsStale("useTasks.ts", prev[k], now)
     THEN WithEnd(prev[k], "error", now)
     ELSE prev[k]]

Sweep(i, prev, now) ==
  IF i = "part_001" THEN CleanupSweep(prev, now) ELSE StaleSweep(prev, now)

\* variant of SweepReturnsNext for an updater that edits prev in place and
\* returns it
SweepReturnsPrev(i, prev, now) == FALSE

\* the interval updater returns a new Map only when a task was stale
\* (`if (!hasStale) return prev`, `return hasChanges ? next : prev`); React
\* re-renders the consumers only when the returned object is not prev
SweepReturnsNext(i, prev, now) == \E k \in 1..Len(prev) : IsStale(i, prev[k], now)

\* the listener's updater always returns next, a new Map
EventReturnsNext(i, prev, data) == TRUE

\* clearCompleted's updater always returns next, a new Map
ClearReturnsNext(prev) == TRUE

\* variant of ClearTerminal that keeps the error tasks
ClearTerminalCompletedOnly(prev) ==
  SelectSeq(prev, LAMBDA task : task.status # "completed")

\* clearCompleted
ClearTerminal(prev) == SelectSeq(prev, LAMBDA task : task.status = "active")

----------------------------------------------------------------------------
(* Derived views, recomputed at every render *)

\* b.endTime || 0
EndKey(t) == IF HasEndTime(t) THEN t.endTime ELSE 0

\* variant of SortByEndDesc with the comparator's operands swapped (ascending)
RECURSIVE SortByEndAsc(_)
SortByEndAsc(s) ==
  IF s = <<>> THEN <<>>
  ELSE LET front == SortByEndAsc(SubSeq(s, 1, Len(s) - 1))
           x     == s[Len(s)]
           n     == Cardinality({k \in 1..Len(front) : EndKey(front[k]) <= EndKey(x)})
       IN  SubSeq(front, 1, n) \o <<x>> \o SubSeq(front, n + 1, Len(front))

\* Array.prototype.sort with (a, b) => (b.endTime || 0) - (a.endTime || 0):
\* stable, descending by end time
RECURSIVE SortByEndDesc(_)
SortByEndDesc(s) ==
  IF s = <<>> THEN <<>>
  ELSE LET front == SortByEndDesc(SubSeq(s, 1, Len(s) - 1))
           x     == s[Len(s)]
           n     == Cardinality({k \in 1..Len(front) : EndKey(front[k]) >= EndKey(x)})
       IN  SubSeq(front, 1, n) \o <<x>> \o SubSeq(front, n + 1, Len(front))

\* variant of Slice that keeps the last n elements, as slice(-n) does
SliceTail(s, n) == SubSeq(s, IF n < Len(s) THEN Len(s) - n + 1 ELSE 1, Len(s))

\* Array.prototype.slice(0, n)
Slice(s, n) == SubSeq(s, 1, IF n < Len(s) THEN n ELSE Len(s))

\* variant of activeTasks that filters out completed tasks only
activeTasksNotCompleted == SelectSeq(tasks, LAMBDA t : t.status # "completed")

activeTasks == SelectSeq(tasks, LAMBDA t : t.status = "active")

completedTasks ==
  Slice(SortByEndDesc(SelectSeq(tasks, Terminal)), MAX_COMPLETED_TASKS)

\* App.tsx
displayedCompletedTasks == Slice(completedTasks, settings.maxRecentTasks)

---------------------------------------------------------------------------------------------------------------------------------------------------
(* State machine *)

\* status of the entry stored under id, "absent" when there is none
StatusOf(m, id) == IF MapHas(m, id) THEN MapGet(m, id).status ELSE "absent"

\* a stored item: the text read by getItem, and for the text of a JSON
\* object its entries <<key, value>> in the order they are written
Item(text, entries) == [text |-> text, entries |-> entries]

\* getItem returns null: nothing is stored
NoItem == Item("null", <<>>)

\* the keys of Settings in the order DEFAULT_SETTINGS lists them
SettingsKeys == <<"position", "alwaysOnTop", "opacity", "maxRecentTasks", "autoHide">>

\* JSON.stringify of a settings object: its own keys in insertion order
Stringify(obj) ==
  LET keys == SelectSeq(SettingsKeys, LAMBDA k : k \in DOMAIN obj) IN
  Item("object", [j \in 1..Len(keys) |-> <<keys[j], obj[keys[j]]>>])

\* the useSettings state of the runs that do not follow the storage: the
\* stored settings were loaded, nothing is queued and no effect is due
SettingsLoaded ==
  /\ isLoaded = TRUE
  /\ storage = Stringify(DEFAULT_SETTINGS)
  /\ settingsQueue = <<>>
  /\ queuedLoaded = FALSE
  /\ loadDue = FALSE
  /\ saveDue = FALSE

\* null, the value of a state that holds no object or number
Null == "null"

\* the state of the runs without a notification window
NoNotification ==
  /\ windowTask = Null
  /\ progress = Null
  /\ notifStatus = "active"
  /\ closeArmed = FALSE
  /\ closed = TRUE

\* the visibility state after the first render: both effects are still to run
OverlayMounted ==
  /\ isVisible = TRUE
  /\ queuedVisible = "none"
  /\ hideTimer = "off"
  /\ keepDue = TRUE
  /\ hideDue = TRUE
  /\ minimizing = FALSE
  /\ userHid = FALSE

Init ==
  /\ impl \in Impls
  /\ tasks = <<>>
  /\ settings = DEFAULT_SETTINGS
  /\ lastOp = [op |-> "mount"]
  /\ intervalActive = TRUE
  /\ pending = <<>>
  /\ serial = <<>>
  /\ twin = <<>>
  /\ OverlayMounted
  /\ SettingsLoaded
  /\ NoNotification

\* the listener receives one task-event and runs its updater; lastOp logs the
\* event, the status its task_id had before, the ids the step removed,
\* whether a new Map was handed to React, and whether the event is a second
\* delivery of the event applied by the step before
OnTaskEvent ==
  \E data \in TaskEvents(impl) :
    /\ tasks' = ApplyEvent(impl, tasks, data)
    /\ lastOp' = [op |-> "event", data |-> data,
                  before |-> StatusOf(tasks, data.task_id),
                  removed |-> Keys(tasks) \ Keys(tasks'),
                  notified |-> EventReturnsNext(impl, tasks, data),
                  repeat |-> lastOp.op = "event" /\ lastOp.data = data]
    /\ UNCHANGED <<impl, settings, effects>>

\* variant of IntervalLive for a hook whose cleanup does not clear the interval
IntervalLiveAlways == TRUE

\* the interval fires only until clearInterval
IntervalLive == intervalActive

\* the interval fires, reads Date.now() and runs its updater
OnIntervalAt(now) ==
  /\ IntervalLive
  /\ tasks' = Sweep(impl, tasks, now)
  /\ lastOp' = [op |-> "interval", now |-> now,
                removed |-> Keys(tasks) \ Keys(tasks'),
                notified |-> SweepReturnsNext(impl, tasks, now)]
  /\ UNCHANGED <<impl, settings, effects>>

OnInterval == \E now \in Clock(impl) : OnIntervalAt(now)

OnClearCompleted ==
  /\ tasks' = ClearTerminal(tasks)
  /\ lastOp' = [op |-> "clearCompleted", removed |-> Keys(tasks) \ Keys(tasks'),
                notified |-> ClearReturnsNext(tasks)]
  /\ UNCHANGED <<impl, settings, effects>>

Next == OnTaskEvent \/ OnInterval \/ OnClearCompleted

Spec == Init /\ [][Next]_vars

----------------------------------------------------------------------------
(* The recent view as a function of the table and of settings.maxRecentTasks: *)
(* the table is drawn from the tables that start events for ids 1, 2, ...     *)
(* followed by complete / error events produce, and the settings slider       *)
(* moves.  The hook is the one App.tsx imports, ./hooks/useTasks; the lines   *)
(* that compute the views are the same in part_001.                           *)

\* largest number of tasks in a drawn table
MaxRecentTable == 6

\* what became of a started task: still active, or ended with a status at a time
Outcomes ==
  {<<"active", 0>>, <<"completed", 3000>>, <<"completed", 5000>>, <<"error", 5000>>}

\* the entry of id after its start event at 1000 and, unless still active, its
\* complete / error event
EntryAfter(i, id, outcome) ==
  LET started == NewTask(i, Event(StartType(i), id, Undefined, 1000, FALSE))
  IN  IF outcome[1] = "active" THEN started
      ELSE WithEnd(started, outcome[1], outcome[2])

RecentTables(i) ==
  UNION { { [k \in 1..n |-> EntryAfter(i, ToString(k), c[k])] : c \in [1..n -> Outcomes] } :
          n \in 0..MaxRecentTable }

InitRecent ==
  /\ impl = "useTasks.ts"
  /\ tasks \in RecentTables(impl)
  /\ settings = DEFAULT_SETTINGS
  /\ lastOp = [op |-> "mount"]
  /\ intervalActive = TRUE
  /\ pending = <<>>
  /\ serial = <<>>
  /\ twin = <<>>
  /\ OverlayMounted
  /\ SettingsLoaded
  /\ NoNotification

\* Settings.tsx: the Recent Tasks slider calls onUpdate("maxRecentTasks", n)
OnUpdateMaxRecentTasks ==
  \E n \in MinRecentTasks..MaxRecentTasks :
    /\ settings' = [settings EXCEPT !.maxRecentTasks = n]
    /\ lastOp' = [op |-> "updateSetting", key |-> "maxRecentTasks", value |-> n]
    /\ UNCHANGED <<impl, tasks, effects>>

\* useSettings.resetSettings
OnResetSettings ==
  /\ settings' = DEFAULT_SETTINGS
  /\ lastOp' = [op |-> "resetSettings"]
  /\ UNCHANGED <<impl, tasks, effects>>

NextRecent == OnUpdateMaxRecentTasks \/ OnResetSettings

SpecRecent == InitRecent /\ [][NextRecent]_vars

\* setInterval keeps firing while the hook is mounted and Date.now() grows
\* without bound: a tick that reads a late clock is never postponed forever
FairSpec == Spec /\ WF_vars(OnIntervalAt(LateClock(impl)))

----------------------------------------------------------------------------
(* Teardown of the interval effect: the cleanup function of the effect runs   *)
(* clearInterval when the hook unmounts.  The listener's unlisten is resolved *)
(* asynchronously, so events can still be applied after the interval is gone. *)

OnTeardown ==
  /\ intervalActive
  /\ intervalActive' = FALSE
  /\ lastOp' = [op |-> "teardown"]
  /\ UNCHANGED <<impl, tasks, settings, pending, serial, twin, overlay,
                 store, notification>>

NextTeardown == OnTaskEvent \/ OnInterval \/ OnClearCompleted \/ OnTeardown

SpecTeardown == Init /\ [][NextTeardown]_vars

----------------------------------------------------------------------------
(* React's update queue.  The listener and the interval callback do not write *)
(* the table: each calls setTasks with an updater function, React queues the  *)
(* updaters and runs the queue at the next render, handing every updater the  *)
(* table the previous one returned.  serial is the table obtained by running  *)
(* every updater alone at the moment it was queued.                           *)

\* updaters that may wait in the queue before a render
MaxPending == 2

\* the events queued here: one session, start timestamps on both sides of the
\* session threshold
QueuedEvents(i) ==
  { e \in TaskEvents(i) :
      /\ e.timestamp # 3000
      /\ e.session_id # "s2"
      /\ (i = "part_001" /\ e.type # CompleteType(i) /\ e.type # ErrorType(i))
            => e.session_id = "s1" }

\* a queued updater: the closure holds the event payload, or the Date.now() the
\* interval callback read before calling setTasks
EventUpdate(data) == [kind |-> "event", data |-> data]

SweepUpdate(now) == [kind |-> "sweep", now |-> now]

\* one updater run on the table it is handed
ApplyUpdate(i, prev, u) ==
  IF u.kind = "event" THEN ApplyEvent(i, prev, u.data) ELSE Sweep(i, prev, u.now)

\* variant of ProcessUpdates for setTasks(value) calls: every queued value was
\* computed from the table of the render that queued it, the last one wins
ProcessUpdatesStale(i, base, queue) ==
  IF queue = <<>> THEN base ELSE ApplyUpdate(i, base, queue[Len(queue)])

\* React runs the queued updaters in order, each on the result of the one
\* before
RECURSIVE ProcessUpdates(_, _, _)
ProcessUpdates(i, base, queue) ==
  IF queue = <<>>
  THEN base
  ELSE ProcessUpdates(i, ApplyUpdate(i, base, Head(queue)), Tail(queue))

\* setTasks(updater) of the listener or of the interval callback
Enqueue(u) ==
  /\ Len(pending) < MaxPending
  /\ pending' = Append(pending, u)
  /\ serial' = ApplyUpdate(impl, serial, u)
  /\ lastOp' = [op |-> "setTasks", kind |-> u.kind]
  /\ UNCHANGED <<impl, tasks, settings, intervalActive, twin, overlay, store,
                 notification>>

OnQueueEvent == \E data \in QueuedEvents(impl) : Enqueue(EventUpdate(data))

OnQueueTick == IntervalLive /\ Enqueue(SweepUpdate(LateClock(impl)))

\* React renders: the queue is processed and the result is committed
OnRender ==
  /\ pending # <<>>
  /\ tasks' = ProcessUpdates(impl, tasks, pending)
  /\ pending' = <<>>
  /\ lastOp' = [op |-> "render", kinds |-> [k \in 1..Len(pending) |-> pending[k].kind]]
  /\ UNCHANGED <<impl, settings, intervalActive, serial, twin, overlay,
                 store, notification>>

NextQueue == OnQueueEvent \/ OnQueueTick \/ OnRender

SpecQueue == Init /\ [][NextQueue]_vars

----------------------------------------------------------------------------
(* Two runs of the hook that receive the same events and the same ticks; the  *)
(* start events of the two runs may carry different background flags.         *)

\* the event with its background flag replaced
WithBackground(data, bg) == [data EXCEPT !.background = bg]

\* the flags a start event carries in the two runs; other events carry none
BackgroundPairs(i, data) ==
  IF data.type = StartType(i) THEN BOOLEAN \X BOOLEAN ELSE {<<FALSE, FALSE>>}

OnTwinEvent ==
  \E data \in QueuedEvents(impl) :
    \E bgs \in BackgroundPairs(impl, data) :
      /\ tasks' = ApplyEvent(impl, tasks, WithBackground(data, bgs[1]))
      /\ twin' = ApplyEvent(impl, twin, WithBackground(data, bgs[2]))
      /\ lastOp' = [op |-> "event", data |-> data,
                    removed |-> Keys(tasks) \ Keys(tasks')]
      /\ UNCHANGED <<impl, settings, intervalActive, pending, serial,
                     overlay, store, notification>>

OnTwinInterval ==
  \E now \in Clock(impl) :
    /\ IntervalLive
    /\ tasks' = Sweep(impl, tasks, now)
    /\ twin' = Sweep(impl, twin, now)
    /\ lastOp' = [op |-> "interval", now |-> now,
                  removed |-> Keys(tasks) \ Keys(tasks')]
    /\ UNCHANGED <<impl, settings, intervalActive, pending, serial, overlay,
                   store, notification>>

NextTwin == OnTwinEvent \/ OnTwinInterval

SpecTwin == Init /\ [][NextTwin]_vars

----------------------------------------------------------------------------
(* Visibility of the overlay.  The listener, the timer callback and           *)
(* handleMinimize only call setTasks / setIsVisible; React renders later, in  *)
(* a task of its own, and runs the effects whose dependencies changed after   *)
(* the commit, in another.  These tasks take far less than the 3000 ms of the *)
(* auto-hide timer, so the timer comes due only while nothing is queued; once *)
(* due, its callback can run between any two of these tasks.                  *)

\* the events of the overlay runs: two tasks of one session and their ends
OverlayEvents(i) ==
  { e \in QueuedEvents(i) :
      \/ e.type = StartType(i) /\ e.timestamp = 4000
      \/ e.type = CompleteType(i) }

InitOverlay ==
  /\ impl \in Impls
  /\ tasks = <<>>
  /\ settings \in {[DEFAULT_SETTINGS EXCEPT !.autoHide = b] : b \in BOOLEAN}
  /\ lastOp = [op |-> "mount"]
  /\ intervalActive = TRUE
  /\ pending = <<>>
  /\ serial = <<>>
  /\ twin = <<>>
  /\ OverlayMounted
  /\ SettingsLoaded
  /\ NoNotification

\* a setIsVisible(value) call: the last value queued wins at the next render
SetIsVisible(value) == IF value THEN "true" ELSE "false"

\* the listener: setTasks(updater), then resetHideTimer (hideTimeout is never
\* set, so it only calls setIsVisible(true))
OnListen ==
  \E data \in OverlayEvents(impl) :
    /\ Len(pending) < MaxPending
    /\ pending' = Append(pending, EventUpdate(data))
    /\ queuedVisible' = SetIsVisible(TRUE)
    /\ userHid' = FALSE
    /\ lastOp' = [op |-> "listen", data |-> data]
    /\ UNCHANGED <<notification, store, impl, tasks, settings, intervalActive, serial, twin,
                   isVisible, hideTimer, keepDue, hideDue, minimizing>>

\* React renders and commits the queued updates; an effect is due when one of
\* its dependencies differs from the commit before.  The effects of the
\* commit before are flushed before a new render starts.
OnCommit ==
  /\ ~keepDue /\ ~hideDue
  /\ pending # <<>> \/ queuedVisible # "none"
  /\ tasks' = ProcessUpdates(impl, tasks, pending)
  /\ isVisible' = IF queuedVisible = "none" THEN isVisible ELSE queuedVisible = "true"
  /\ pending' = <<>>
  /\ queuedVisible' = "none"
  /\ keepDue' = (Len(activeTasks') # Len(activeTasks))
  /\ hideDue' = (Len(activeTasks') # Len(activeTasks) \/ isVisible' # isVisible)
  /\ lastOp' = [op |-> "commit"]
  /\ UNCHANGED <<notification, store, impl, settings, intervalActive, serial, twin, hideTimer,
                 minimizing, userHid>>

\* variant of KeepVisible for a hook without the keep-visible effect
KeepVisibleNever(queued, count) == queued

\* the keep-visible effect: setIsVisible(true) when a task is active
KeepVisible(queued, count) == IF count > 0 THEN SetIsVisible(TRUE) ELSE queued

\* App's auto-hide effect: the cleanup of the run before clears its timer,
\* then the timer is armed when autoHide is on, no task is active and the
\* overlay is visible
AutoHideArmed(autoHide, count, visible) == autoHide /\ count = 0 /\ visible

\* the effects that are due run, the hook's before App's
OnPassiveEffects ==
  /\ keepDue \/ hideDue
  /\ queuedVisible' =
       IF keepDue THEN KeepVisible(queuedVisible, Len(activeTasks)) ELSE queuedVisible
  /\ userHid' = (userHid /\ queuedVisible' = queuedVisible)
  /\ hideTimer' =
       IF hideDue
       THEN IF AutoHideArmed(settings.autoHide, Len(activeTasks), isVisible)
            THEN "armed" ELSE "off"
       ELSE hideTimer
  /\ keepDue' = FALSE
  /\ hideDue' = FALSE
  /\ lastOp' = [op |-> "effects"]
  /\ UNCHANGED <<notification, store, impl, tasks, settings, intervalActive, pending, serial, twin,
                 isVisible, minimizing>>

\* 3000 ms have passed since the timer was armed, with nothing queued and no
\* effect due at the end of them
OnTimerDue ==
  /\ hideTimer = "armed"
  /\ pending = <<>> /\ queuedVisible = "none" /\ ~keepDue /\ ~hideDue
  /\ hideTimer' = "due"
  /\ lastOp' = [op |-> "elapsed"]
  /\ UNCHANGED <<notification, store, impl, tasks, settings, intervalActive, pending, serial, twin,
                 isVisible, queuedVisible, keepDue, hideDue, minimizing, userHid>>

\* the timer callback runs: invoke("hide_window"), setIsVisible(false);
\* lastOp logs whether a task was active in the committed table
OnHideTimer ==
  /\ hideTimer = "due"
  /\ hideTimer' = "off"
  /\ queuedVisible' = SetIsVisible(FALSE)
  /\ userHid' = FALSE
  /\ lastOp' = [op |-> "hide_window", active |-> Len(activeTasks) > 0]
  /\ UNCHANGED <<notification, store, impl, tasks, settings, intervalActive, pending, serial, twin,
                 isVisible, keepDue, hideDue, minimizing>>

\* handleMinimize up to its await
OnMinimize ==
  /\ ~minimizing
  /\ minimizing' = TRUE
  /\ lastOp' = [op |-> "minimize"]
  /\ UNCHANGED <<notification, store, impl, tasks, settings, intervalActive, pending, serial, twin,
                 isVisible, queuedVisible, hideTimer, keepDue, hideDue, userHid>>

\* handleMinimize after invoke("hide_window") resolved: setIsVisible(false)
OnMinimized ==
  /\ minimizing
  /\ minimizing' = FALSE
  /\ queuedVisible' = SetIsVisible(FALSE)
  /\ userHid' = TRUE
  /\ lastOp' = [op |-> "minimized"]
  /\ UNCHANGED <<notification, store, impl, tasks, settings, intervalActive, pending, serial, twin,
                 isVisible, hideTimer, keepDue, hideDue>>

NextOverlay ==
  \/ OnListen
  \/ OnCommit
  \/ OnPassiveEffects
  \/ OnTimerDue
  \/ OnHideTimer
  \/ OnMinimize
  \/ OnMinimized

SpecOverlay == InitOverlay /\ [][NextOverlay]_vars

----------------------------------------------------------------------------
(* useSettings: the load effect and the save effect run after the first       *)
(* commit, in that order, with the state of that render; setSettings and      *)
(* setIsLoaded take effect at the next render.  The Settings panel is opened  *)
(* by the user, so settings are edited only after the load was rendered.      *)

\* `if (stored)`: null and the empty string are falsy
StoredTruthy(item) == item.text # "null" /\ item.text # ""

\* the object a JSON object text denotes: of two entries with one key the
\* later wins
ParsedObject(entries) ==
  [k \in {entries[j][1] : j \in 1..Len(entries)} |->
     entries[CHOOSE j \in 1..Len(entries) :
               /\ entries[j][1] = k
               /\ \A j2 \in (j + 1)..Len(entries) : entries[j2][1] # k][2]]

\* JSON.parse inside try / catch: ok is false when it throws
Parse(item) ==
  IF item.text = "object"
  THEN [ok |-> TRUE, value |-> ParsedObject(item.entries)]
  ELSE [ok |-> FALSE, value |-> <<>>]

\* variant of Spread with the operands swapped: { ...b, ...a }
SpreadReversed(a, b) ==
  [k \in DOMAIN a \cup DOMAIN b |-> IF k \in DOMAIN a THEN a[k] ELSE b[k]]

\* { ...a, ...b }
Spread(a, b) ==
  [k \in DOMAIN a \cup DOMAIN b |-> IF k \in DOMAIN b THEN b[k] ELSE a[k]]

\* what localStorage may hold at startup: nothing, the empty string, text
\* that is not JSON, an object with one key, an object with every key
StoredItems ==
  { NoItem, Item("", <<>>), Item("{oops", <<>>),
    Item("object", << <<"maxRecentTasks", 3>> >>),
    Stringify([DEFAULT_SETTINGS EXCEPT !.opacity = 50, !.autoHide = TRUE]) }

\* setSettings(value)
SetValue(value) == [kind |-> "value", value |-> value]

\* setSettings((prev) => ({ ...prev, [key]: value }))
SetKey(key, value) == [kind |-> "key", key |-> key, value |-> value]

\* the updateSetting calls drawn: the ends of the slider, the auto-hide switch
SettingUpdates ==
  { SetKey("maxRecentTasks", n) : n \in {MinRecentTasks, MaxRecentTasks} }
    \cup { SetKey("autoHide", b) : b \in BOOLEAN }

ApplySetting(prev, u) ==
  IF u.kind = "value" THEN u.value ELSE [prev EXCEPT ![u.key] = u.value]

RECURSIVE ProcessSettings(_, _)
ProcessSettings(prev, queue) ==
  IF queue = <<>>
  THEN prev
  ELSE ProcessSettings(ApplySetting(prev, Head(queue)), Tail(queue))

InitSettings ==
  /\ impl = "useTasks.ts"
  /\ tasks = <<>>
  /\ settings = DEFAULT_SETTINGS
  /\ lastOp = [op |-> "mount"]
  /\ intervalActive = TRUE
  /\ pending = <<>>
  /\ serial = <<>>
  /\ twin = <<>>
  /\ OverlayMounted
  /\ isLoaded = FALSE
  /\ storage \in StoredItems
  /\ settingsQueue = <<>>
  /\ queuedLoaded = FALSE
  /\ loadDue = TRUE
  /\ saveDue = TRUE
  /\ NoNotification

\* variant of SaveAllowed for a save effect without the isLoaded test
SaveAllowedAlways(loaded) == TRUE

\* `if (!isLoaded) return;`
SaveAllowed(loaded) == loaded

\* the load effect
LoadQueue(queue, item) ==
  IF StoredTruthy(item) /\ Parse(item).ok
  THEN Append(queue, SetValue(Spread(DEFAULT_SETTINGS, Parse(item).value)))
  ELSE queue

\* the effects that are due run: load before save
OnSettingsEffects ==
  /\ loadDue \/ saveDue
  /\ settingsQueue' = IF loadDue THEN LoadQueue(settingsQueue, storage) ELSE settingsQueue
  /\ queuedLoaded' = (queuedLoaded \/ loadDue)
  /\ storage' = IF saveDue /\ SaveAllowed(isLoaded) THEN Stringify(settings) ELSE storage
  /\ loadDue' = FALSE
  /\ saveDue' = FALSE
  /\ lastOp' = [op |-> "settingsEffects", read |-> loadDue,
                wrote |-> saveDue /\ SaveAllowed(isLoaded)]
  /\ UNCHANGED <<notification, impl, tasks, settings, intervalActive, pending, serial, twin,
                 overlay, isLoaded>>

\* React renders and commits the queued updates; the save effect is due when
\* settings or isLoaded was set
OnSettingsCommit ==
  /\ ~loadDue /\ ~saveDue
  /\ settingsQueue # <<>> \/ queuedLoaded
  /\ settings' = ProcessSettings(settings, settingsQueue)
  /\ isLoaded' = (isLoaded \/ queuedLoaded)
  /\ settingsQueue' = <<>>
  /\ queuedLoaded' = FALSE
  /\ saveDue' = TRUE
  /\ lastOp' = [op |-> "settingsCommit"]
  /\ UNCHANGED <<notification, impl, tasks, intervalActive, pending, serial, twin, overlay,
                 storage, loadDue>>

\* updateSetting / resetSettings, called from the Settings panel
QueueSetting(u) ==
  /\ isLoaded
  /\ Len(settingsQueue) < MaxPending
  /\ settingsQueue' = Append(settingsQueue, u)
  /\ lastOp' = [op |-> "setSettings", kind |-> u.kind]
  /\ UNCHANGED <<notification, impl, tasks, settings, intervalActive, pending, serial, twin,
                 overlay, isLoaded, storage, queuedLoaded, loadDue, saveDue>>

OnUpdateSetting == \E u \in SettingUpdates : QueueSetting(u)

OnQueueReset == QueueSetting(SetValue(DEFAULT_SETTINGS))

NextSettings ==
  OnSettingsEffects \/ OnSettingsCommit \/ OnUpdateSetting \/ OnQueueReset

SpecSettings == InitSettings /\ [][NextSettings]_vars

----------------------------------------------------------------------------
(* The notification window of one task.  Its listeners are registered once    *)
(* the task passed in the URL was parsed; each handler runs to its end and    *)
(* its setState calls are rendered together.                                  *)

\* percent values of download-progress events
Percents == {0, 25, 50, 75, 100}

\* download-progress payloads
ProgressUpdates == [task_id : TaskIds, percent : Percents]

\* task-complete payloads
TaskCompletes == [task_id : TaskIds, status : {"complete", "error"}]

\* the window of a task, or a window whose task parameter did not parse
InitNotification ==
  /\ impl = "part_001"
  /\ tasks = <<>>
  /\ settings = DEFAULT_SETTINGS
  /\ lastOp = [op |-> "mount"]
  /\ intervalActive = TRUE
  /\ pending = <<>>
  /\ serial = <<>>
  /\ twin = <<>>
  /\ OverlayMounted
  /\ SettingsLoaded
  /\ windowTask \in TaskIds \cup {Null}
  /\ progress = Null
  /\ notifStatus = "active"
  /\ closeArmed = FALSE
  /\ closed = FALSE

\* `if (!task) return`: without a task no listener is registered
Listening == windowTask # Null /\ ~closed

\* the download-progress listener
OnDownloadProgress ==
  \E payload \in ProgressUpdates :
    /\ Listening
    /\ progress' = IF payload.task_id = windowTask THEN payload.percent ELSE progress
    /\ lastOp' = [op |-> "download-progress", payload |-> payload,
                  completed |-> notifStatus # "active"]
    /\ UNCHANGED <<impl, tasks, settings, intervalActive, pending, serial, twin,
                   overlay, store, windowTask, notifStatus, closeArmed, closed>>

\* the task-complete listener
OnTaskComplete ==
  \E payload \in TaskCompletes :
    /\ Listening
    /\ progress' = IF payload.task_id = windowTask THEN 100 ELSE progress
    /\ notifStatus' =
         IF payload.task_id = windowTask THEN payload.status ELSE notifStatus
    /\ closeArmed' = (closeArmed \/ payload.task_id = windowTask)
    /\ lastOp' = [op |-> "task-complete", payload |-> payload,
                  completed |-> notifStatus # "active"]
    /\ UNCHANGED <<impl, tasks, settings, intervalActive, pending, serial, twin,
                   overlay, store, windowTask, closed>>

\* the first 2000 ms timer fires: getCurrentWindow().close()
OnCloseTimer ==
  /\ closeArmed
  /\ ~closed
  /\ closed' = TRUE
  /\ closeArmed' = FALSE
  /\ lastOp' = [op |-> "close"]
  /\ UNCHANGED <<impl, tasks, settings, intervalActive, pending, serial, twin,
                 overlay, store, windowTask, progress, notifStatus>>

NextNotification == OnDownloadProgress \/ OnTaskComplete \/ OnCloseTimer

SpecNotification == InitNotification /\ [][NextNotification]_vars

----------------------------------------------------------------------------
(* Vocabulary of the properties *)

IsStartOp(o) == o.op = "event" /\ o.data.type = StartType(impl)

IsEndOp(o) ==
  o.op = "event" /\ o.data.type \in {CompleteType(impl), ErrorType(impl)}

IsStopOp(o) == o.op = "event" /\ o.data.type = "session_stopped"

IsIntervalOp(o) == o.op = "interval"

\* the entry of t's id is the same in the table m
KeptIn(m, t) == MapHas(m, t.id) /\ MapGet(m, t.id) = t

InView(view, id) == \E k \in 1..Len(view) : view[k].id = id

----------------------------------------------------------------------------
\* C1: once a task is completed or error, no complete / error event and no
\* interval tick changes its status or its endTime: across every such step a
\* terminal entry stays in the table exactly as it was.
C1_TerminalIsFinal ==
  [][ (IsEndOp(lastOp') \/ IsIntervalOp(lastOp'))
        => \A k \in 1..Len(tasks) : Terminal(tasks[k]) => KeptIn(tasks', tasks[k]) ]_vars

\* C2: in every reachable state a task is active if and only if it has no
\* endTime.
C2_ActiveIffNoEndTime ==
  \A k \in 1..Len(tasks) : (tasks[k].status = "active") <=> ~HasEndTime(tasks[k])

\* a terminal task was restarted by a second start event and is active without
\* endTime, next to a terminal task that has one
C2_Witness ==
  /\ IsStartOp(lastOp)
  /\ lastOp.before \in {"completed", "error"}
  /\ StatusOf(tasks, lastOp.data.task_id) = "active"
  /\ ~HasEndTime(MapGet(tasks, lastOp.data.task_id))
  /\ \E k \in 1..Len(tasks) : Terminal(tasks[k]) /\ HasEndTime(tasks[k])

\* C3: a complete / error event whose task_id is not in the table leaves the
\* table unchanged.
C3_UnknownIdNoOp ==
  [][ (IsEndOp(lastOp') /\ ~MapHas(tasks, lastOp'.data.task_id))
        => tasks' = tasks ]_vars

\* a complete / error event for an absent id has been applied to a non-empty
\* table
C3_Witness ==
  /\ IsEndOp(lastOp)
  /\ lastOp.before = "absent"
  /\ Len(tasks) >= 1

\* C4: after a start event for id X with timestamp ts the table holds exactly
\* one entry for X: active, startTime = ts, no endTime, and (part_001)
\* sessionId = the event's session_id.
C4_StartUpserts ==
  IsStartOp(lastOp) =>
    LET X == lastOp.data.task_id
    IN  /\ Cardinality({k \in 1..Len(tasks) : tasks[k].id = X}) = 1
        /\ MapGet(tasks, X).status = "active"
        /\ MapGet(tasks, X).startTime = lastOp.data.timestamp
        /\ ~HasEndTime(MapGet(tasks, X))
        /\ impl = "part_001" => MapGet(tasks, X).sessionId = lastOp.data.session_id

\* a start event has overwritten a terminal entry of the same id
C4_Witness ==
  /\ IsStartOp(lastOp)
  /\ lastOp.before \in {"completed", "error"}
  /\ Len(tasks) = 2

\* C5: part_001: a start event for B with session S and timestamp ts removes
\* every other task that is active, has sessionId S and started more than
\* 2000 ms before ts; it is then in neither view.
C5_SessionPurge ==
  [][ (impl = "part_001" /\ IsStartOp(lastOp') /\ Truthy(lastOp'.data.session_id))
        => \A k \in 1..Len(tasks) :
             ( /\ tasks[k].status = "active"
               /\ tasks[k].sessionId = lastOp'.data.session_id
               /\ tasks[k].id # lastOp'.data.task_id
               /\ lastOp'.data.timestamp - tasks[k].startTime > SESSION_STALE_MS )
             => /\ ~MapHas(tasks', tasks[k].id)
                /\ ~InView(activeTasks', tasks[k].id)
                /\ ~InView(completedTasks', tasks[k].id) ]_vars

\* a start event carrying a session has removed another task
C5_Witness ==
  /\ impl = "part_001"
  /\ IsStartOp(lastOp)
  /\ Truthy(lastOp.data.session_id)
  /\ lastOp.removed # {}
  /\ lastOp.data.task_id \notin lastOp.removed

\* C6: a start event leaves unchanged every other task that is terminal, or of
\* another session, or without sessionId, or started at most 2000 ms before the
\* event's timestamp; a start event without session_id changes no other task.
C6_PurgeFrame ==
  [][ IsStartOp(lastOp')
        => \A k \in 1..Len(tasks) :
             ( /\ tasks[k].id # lastOp'.data.task_id
               /\ \/ impl # "part_001"
                  \/ ~Truthy(lastOp'.data.session_id)
                  \/ Terminal(tasks[k])
                  \/ tasks[k].sessionId # lastOp'.data.session_id
                  \/ lastOp'.data.timestamp - tasks[k].startTime <= SESSION_STALE_MS )
             => KeptIn(tasks', tasks[k]) ]_vars

\* a start event of session s1 was applied exactly 2000 ms after the start of
\* an active task of session s1, which is still in the table
C6_Witness ==
  /\ impl = "part_001"
  /\ IsStartOp(lastOp)
  /\ lastOp.data.session_id = "s1"
  /\ \E k \in 1..Len(tasks) :
       /\ tasks[k].id # lastOp.data.task_id
       /\ tasks[k].status = "active"
       /\ tasks[k].sessionId = "s1"
       /\ lastOp.data.timestamp - tasks[k].startTime = SESSION_STALE_MS

\* C7: part_001: session_stopped removes every active task whatever the
\* session ids, keeps every terminal task unchanged, and empties the active
\* view.
C7_SessionStoppedClearsActive ==
  [][ IsStopOp(lastOp')
        => /\ \A k \in 1..Len(tasks) :
                IF tasks[k].status = "active"
                THEN ~MapHas(tasks', tasks[k].id)
                ELSE KeptIn(tasks', tasks[k])
           /\ activeTasks' = <<>> ]_vars

\* a session_stopped of session s1 has removed an active task while a terminal
\* task of session s2 stayed in the table
C7_Witness ==
  /\ IsStopOp(lastOp)
  /\ lastOp.data.session_id = "s1"
  /\ lastOp.removed # {}
  /\ \E k \in 1..Len(tasks) : Terminal(tasks[k]) /\ tasks[k].sessionId = "s2"

Active(id) == StatusOf(tasks, id) = "active"

RestartedBy(o, id) == IsStartOp(o) /\ o.data.task_id = id

----------------------------------------------------------------------------
(* Recent view *)

NonIncreasingByEnd(view) ==
  \A k \in 1..(Len(view) - 1) : view[k].endTime >= view[k + 1].endTime

OnlyTerminal(view) == \A k \in 1..Len(view) : Terminal(view[k])

\* C9: in every state the recent view of the hook and the list App shows hold
\* only completed / error tasks, are ordered by non-increasing endTime, and
\* have at most MAX_COMPLETED_TASKS, resp. settings.maxRecentTasks, entries.
C9_RecentViewBoundedSorted ==
  LET recent == completedTasks
      shown  == displayedCompletedTasks
  IN  /\ OnlyTerminal(recent)
      /\ OnlyTerminal(shown)
      /\ NonIncreasingByEnd(recent)
      /\ NonIncreasingByEnd(shown)
      /\ Len(recent) <= MAX_COMPLETED_TASKS
      /\ Len(shown) <= settings.maxRecentTasks

\* more terminal tasks than either cap, stored out of end-time order, with the
\* slider at 3: the shown list is full
C9_Witness ==
  /\ Len(SelectSeq(tasks, Terminal)) > MAX_COMPLETED_TASKS
  /\ \E j, k \in 1..Len(tasks) :
       j < k /\ Terminal(tasks[j]) /\ Terminal(tasks[k])
             /\ tasks[j].endTime < tasks[k].endTime
  /\ settings.maxRecentTasks = 3
  /\ Len(displayedCompletedTasks) = 3

MinOf(a, b) == IF a < b THEN a ELSE b

\* C10: for every cap N = settings.maxRecentTasks in 1..10 the list handed to
\* the UI has exactly min(N, number of terminal tasks) entries, and every
\* terminal task left out ended no later than every task shown.
C10_ShowsNMostRecent ==
  LET terminal == SelectSeq(tasks, Terminal)
      shown    == displayedCompletedTasks
  IN  /\ Len(shown) = MinOf(settings.maxRecentTasks, Len(terminal))
      /\ \A k \in 1..Len(terminal) :
           ~InView(shown, terminal[k].id)
             => \A j \in 1..Len(shown) : terminal[k].endTime <= shown[j].endTime

----------------------------------------------------------------------------
\* C11 as claimed: the number of completed / error tasks kept in the task
\* table never exceeds the configured cap.
C11_TableWithinCap ==
  Len(SelectSeq(tasks, Terminal)) <= settings.maxRecentTasks

\* C11 amended: the table keeps every terminal task; the bound is on the list
\* shown: it never has more than settings.maxRecentTasks entries, its entries
\* are terminal entries of the table, and every terminal task left out of it
\* ended no later than every task in it (the oldest are the ones dropped).
C11_ShownWithinCapOldestDropped ==
  LET terminal == SelectSeq(tasks, Terminal)
      shown    == displayedCompletedTasks
  IN  /\ Len(shown) <= settings.maxRecentTasks
      /\ \A j \in 1..Len(shown) : \E k \in 1..Len(terminal) : terminal[k] = shown[j]
      /\ \A k \in 1..Len(terminal) :
           ~InView(shown, terminal[k].id)
             => \A j \in 1..Len(shown) : terminal[k].endTime <= shown[j].endTime

\* six terminal tasks in the table, the slider at 2: two are shown and a task
\* that ended strictly earlier than both is left out
C11_Witness ==
  /\ Len(SelectSeq(tasks, Terminal)) > MAX_COMPLETED_TASKS
  /\ settings.maxRecentTasks = 2
  /\ Len(displayedCompletedTasks) = 2
  /\ \E k \in 1..Len(tasks) :
       /\ Terminal(tasks[k])
       /\ ~InView(displayedCompletedTasks, tasks[k].id)
       /\ \A j \in 1..2 : tasks[k].endTime < displayedCompletedTasks[j].endTime

----------------------------------------------------------------------------
IsCompleteOp(o) == o.op = "event" /\ o.data.type = CompleteType(impl)

\* a start event for an id, immediately followed by a complete event for it
StartThenComplete ==
  /\ IsStartOp(lastOp)
  /\ IsCompleteOp(lastOp')
  /\ lastOp'.data.task_id = lastOp.data.task_id

ExactlyOne(m, id) == Cardinality({k \in 1..Len(m) : m[k].id = id}) = 1

\* C12 as claimed: a start event immediately followed by a complete event for
\* the same id leaves exactly one task with that id, completed, with
\* endTime >= startTime, whatever the two timestamps.
C12_StartCompleteEndsAfterStart ==
  [][ StartThenComplete
        => LET id == lastOp'.data.task_id
           IN  /\ ExactlyOne(tasks', id)
               /\ MapGet(tasks', id).status = "completed"
               /\ MapGet(tasks', id).endTime >= MapGet(tasks', id).startTime ]_vars

\* C12 amended: ... leaves exactly one task with that id, completed, with
\* startTime the start event's timestamp and endTime the complete event's
\* timestamp; so endTime >= startTime when the complete event's timestamp is
\* not older than the start event's.
C12_StartCompleteCopiesTimestamps ==
  [][ StartThenComplete
        => LET id == lastOp'.data.task_id
           IN  /\ ExactlyOne(tasks', id)
               /\ MapGet(tasks', id).status = "completed"
               /\ MapGet(tasks', id).startTime = lastOp.data.timestamp
               /\ MapGet(tasks', id).endTime = lastOp'.data.timestamp
               /\ lastOp'.data.timestamp >= lastOp.data.timestamp
                    => MapGet(tasks', id).endTime >= MapGet(tasks', id).startTime ]_vars

\* a complete event has ended an active task, next to another task, with an
\* endTime later than its startTime
C12_Witness ==
  /\ IsCompleteOp(lastOp)
  /\ lastOp.before = "active"
  /\ Len(tasks) = 2
  /\ LET t == MapGet(tasks, lastOp.data.task_id)
     IN  t.status = "completed" /\ t.endTime = 5000 /\ t.startTime = 4000

----------------------------------------------------------------------------
(* The scenario of the specification's section 8, part_001 *)

ScenarioStartT1 == Event("task_started", "t1", "s1", 1000, FALSE)

ScenarioStartT2 == Event("task_started", "t2", "s1", 4000, FALSE)

ScenarioCompleteT2 == Event("task_complete", "t2", Undefined, 5000, FALSE)

IsEventOp(o, data) == o.op = "event" /\ o.data = data

OnlyTask(m, id, status) == Len(m) = 1 /\ m[1].id = id /\ m[1].status = status

\* C13: from the empty table, task_started{t1, s1, 1000} gives a table with t1
\* alone; from there task_started{t2, s1, 4000} gives a table with only t2,
\* active; from there task_complete{t2, 5000} gives a table with only t2,
\* completed with endTime 5000, an empty active view and the recent view [t2].
C13_Scenario ==
  [][ impl = "part_001" =>
        /\ (tasks = <<>> /\ IsEventOp(lastOp', ScenarioStartT1))
             => /\ OnlyTask(tasks', "t1", "active")
                /\ tasks'[1].startTime = 1000 /\ tasks'[1].sessionId = "s1"
        /\ ( /\ OnlyTask(tasks, "t1", "active")
             /\ tasks[1].startTime = 1000 /\ tasks[1].sessionId = "s1"
             /\ IsEventOp(lastOp', ScenarioStartT2) )
             => /\ OnlyTask(tasks', "t2", "active")
                /\ tasks'[1].startTime = 4000 /\ tasks'[1].sessionId = "s1"
        /\ ( /\ OnlyTask(tasks, "t2", "active")
             /\ tasks[1].startTime = 4000 /\ tasks[1].sessionId = "s1"
             /\ IsEventOp(lastOp', ScenarioCompleteT2) )
             => /\ OnlyTask(tasks', "t2", "completed")
                /\ tasks'[1].endTime = 5000
                /\ activeTasks' = <<>>
                /\ completedTasks' = tasks' ]_vars

\* the end of the scenario: task_complete{t2, 5000} has ended t2, started at
\* 4000 in session s1 and alone in the table
C13_Witness ==
  /\ impl = "part_001"
  /\ IsEventOp(lastOp, ScenarioCompleteT2)
  /\ lastOp.before = "active"
  /\ OnlyTask(tasks, "t2", "completed")
  /\ tasks[1].startTime = 4000 /\ tasks[1].sessionId = "s1" /\ tasks[1].endTime = 5000
  /\ activeTasks = <<>>
  /\ Len(completedTasks) = 1 /\ completedTasks[1].id = "t2"

----------------------------------------------------------------------------
\* C14: only a start event adds an id to the table: complete / error,
\* session_stopped, interval ticks and clearCompleted add none; and a
\* complete / error event leaves the id set as it was, every other task
\* unchanged, and of the named task only status and endTime changed.
C14_IdsGrowOnlyByStart ==
  [][ /\ ~IsStartOp(lastOp') => Keys(tasks') \subseteq Keys(tasks)
      /\ IsEndOp(lastOp')
           => /\ Keys(tasks') = Keys(tasks)
              /\ \A k \in 1..Len(tasks) :
                   IF tasks[k].id = lastOp'.data.task_id
                   THEN \A f \in DOMAIN tasks[k] \ {"status", "endTime"} :
                          MapGet(tasks', tasks[k].id)[f] = tasks[k][f]
                   ELSE KeptIn(tasks', tasks[k]) ]_vars

\* an error event has ended an active task next to another task
C14_Witness ==
  /\ IsEndOp(lastOp)
  /\ lastOp.data.type = ErrorType(impl)
  /\ lastOp.before = "active"
  /\ StatusOf(tasks, lastOp.data.task_id) = "error"
  /\ Len(tasks) = 2

----------------------------------------------------------------------------
(* Serialization of the updaters *)

----------------------------------------------------------------------------
(* Teardown and change notification *)

\* C16: once the interval is cleared it stays cleared, no interval tick
\* occurs any more, and a step that is not an event leaves every active task
\* in the table as it is
C16_NoSweepAfterTeardown ==
  [][~intervalActive =>
       /\ ~intervalActive'
       /\ ~IsIntervalOp(lastOp')
       /\ lastOp'.op # "event" =>
            \A k \in 1..Len(tasks) :
              tasks[k].status = "active" => KeptIn(tasks', tasks[k])]_vars

\* the interval is cleared, an event was applied after that, and a task
\* started at 1000 is still active
C16_Witness ==
  /\ ~intervalActive
  /\ lastOp.op = "event"
  /\ \E k \in 1..Len(tasks) :
       tasks[k].status = "active" /\ tasks[k].startTime = 1000

\* C17: every step that changes the content of the table (event, interval
\* tick or clearCompleted) hands React a new Map, so the consumers re-render
\* with the new table
C17_ChangeIsNotified ==
  [][tasks' # tasks => lastOp'.notified]_vars

\* an interval tick changed the table and handed React a new Map
C17_Witness ==
  /\ IsIntervalOp(lastOp)
  /\ lastOp.notified
  /\ \/ lastOp.removed # {}
     \/ \E k \in 1..Len(tasks) :
          tasks[k].status = "error" /\ tasks[k].endTime = lastOp.now

----------------------------------------------------------------------------
(* Totality of the updater and shape of the table *)

\* the fields of the Task interface that every entry carries
TaskFields(i) ==
  {"id", "tool", "description", "startTime", "status", "background",
   "subagentType"} \cup (IF i = "part_001" THEN {"sessionId"} ELSE {})

\* an entry is a Task: the required fields, a status of the union type, a
\* numeric startTime, and a numeric endTime on every terminal entry
WellFormedTask(i, t) ==
  /\ TaskFields(i) \subseteq DOMAIN t
  /\ DOMAIN t \subseteq TaskFields(i) \cup {"endTime"}
  /\ t.id \in TaskIds
  /\ t.status \in {"active", "completed", "error"}
  /\ t.startTime \in Nat
  /\ HasEndTime(t) => t.endTime \in Nat
  /\ Terminal(t) => HasEndTime(t)

WellFormed(i, m) == \A k \in 1..Len(m) : WellFormedTask(i, m[k])

\* C18: in every reachable table every event of every kind, id, session and
\* timestamp is applied and yields a table of well-formed tasks, to which in
\* turn every event applies
C18_ApplyIsTotal ==
  /\ WellFormed(impl, tasks)
  /\ \A data \in TaskEvents(impl) :
       LET next == ApplyEvent(impl, tasks, data) IN
       /\ WellFormed(impl, next)
       /\ Keys(next) \subseteq Keys(tasks) \cup {data.task_id}

\* an end event for an id whose entry was already error was applied to a
\* table of two tasks
C18_Witness ==
  /\ IsEndOp(lastOp)
  /\ lastOp.before = "error"
  /\ Len(tasks) = 2

\* C19: the table holds at most one entry per id, and the active view
\* followed by the recent view lists no id twice
C19_OneTaskPerId ==
  LET listed == activeTasks \o completedTasks IN
  /\ \A j, k \in 1..Len(tasks) : tasks[j].id = tasks[k].id => j = k
  /\ \A j, k \in 1..Len(listed) : listed[j].id = listed[k].id => j = k

\* a start event re-used the id of a terminal entry while the other id is
\* terminal: two entries, one in each view
C19_Witness ==
  /\ IsStartOp(lastOp)
  /\ lastOp.before \in {"completed", "error"}
  /\ Len(activeTasks) = 1
  /\ Len(completedTasks) = 1

\* C20: the active view holds exactly the entries of the table whose status
\* is active, each once: none is missing, none is completed or error
C20_ActiveViewExact ==
  LET view == activeTasks IN
  /\ \A k \in 1..Len(tasks) :
       tasks[k].status = "active" <=> \E j \in 1..Len(view) : view[j] = tasks[k]
  /\ \A j \in 1..Len(view) : view[j].status = "active"
  /\ Len(view) = Cardinality({k \in 1..Len(tasks) : tasks[k].status = "active"})

\* the table holds an active task next to an error task
C20_Witness ==
  /\ Len(tasks) = 2
  /\ Len(activeTasks) = 1
  /\ \E k \in 1..Len(tasks) : tasks[k].status = "error"

----------------------------------------------------------------------------
(* The interval tick, duplicate delivery and clearCompleted *)

\* C22: a tick of the cleanup interval of part_001 at wall clock now removes
\* every task that is active with now - startTime > 5 minutes and keeps every
\* other entry as it is; no removed id is in the active or the recent view
C22_CleanupRemovesVeryStale ==
  [][(impl = "part_001" /\ IsIntervalOp(lastOp')) =>
       /\ Keys(tasks') \subseteq Keys(tasks)
       /\ \A k \in 1..Len(tasks) :
            IF /\ tasks[k].status = "active"
               /\ lastOp'.now - tasks[k].startTime > STALE_THRESHOLD_MS
            THEN /\ ~MapHas(tasks', tasks[k].id)
                 /\ ~InView(activeTasks', tasks[k].id)
                 /\ ~InView(completedTasks', tasks[k].id)
            ELSE KeptIn(tasks', tasks[k])]_vars

\* a tick of part_001 removed a very stale task and kept a younger active one
C22_Witness ==
  /\ impl = "part_001"
  /\ IsIntervalOp(lastOp)
  /\ lastOp.removed # {}
  /\ Len(activeTasks) = 1

\* C23: a tick of either hook leaves every completed or error task and every
\* active task with now - startTime <= threshold as it is; when no active
\* task is past the threshold the table is the same and React is handed prev
C23_SweepFrame ==
  [][IsIntervalOp(lastOp') =>
       LET fresh(t) == t.status # "active"
                       \/ lastOp'.now - t.startTime <= StaleThreshold(impl) IN
       /\ \A k \in 1..Len(tasks) : fresh(tasks[k]) => KeptIn(tasks', tasks[k])
       /\ (\A k \in 1..Len(tasks) : fresh(tasks[k])) =>
            (tasks' = tasks /\ ~lastOp'.notified)]_vars

\* a tick read the clock exactly one threshold after the start of an active
\* task: the task is still active and nothing was notified
C23_Witness ==
  /\ IsIntervalOp(lastOp)
  /\ ~lastOp.notified
  /\ \E k \in 1..Len(tasks) :
       /\ tasks[k].status = "active"
       /\ lastOp.now - tasks[k].startTime = StaleThreshold(impl)

\* C24: the updater is idempotent: the table an event produced is a fixed
\* point of that event, and a second delivery of the event right after the
\* first leaves the table as it is
C24_DuplicateIsNoOp ==
  [][lastOp'.op = "event" =>
       /\ ApplyEvent(impl, tasks', lastOp'.data) = tasks'
       /\ lastOp'.repeat => tasks' = tasks]_vars

\* a start event of session s1 stamped 4000 was delivered a second time, to a
\* table that holds its task alone
C24_Witness ==
  /\ IsStartOp(lastOp)
  /\ lastOp.repeat
  /\ lastOp.data.session_id = "s1"
  /\ lastOp.data.timestamp = 4000
  /\ Len(tasks) = 1

\* C25: clearCompleted removes exactly the completed and error tasks and
\* keeps every active task as it is and in its place; afterwards the recent
\* view is empty and the active view is the one before
C25_ClearCompletedFrame ==
  [][lastOp'.op = "clearCompleted" =>
       /\ lastOp'.removed = {tasks[k].id : k \in {j \in 1..Len(tasks) : Terminal(tasks[j])}}
       /\ \A k \in 1..Len(tasks) :
            tasks[k].status = "active" => KeptIn(tasks', tasks[k])
       /\ Keys(tasks') \subseteq Keys(tasks)
       /\ completedTasks' = <<>>
       /\ activeTasks' = activeTasks]_vars

\* clearCompleted dropped an error task and kept an active one
C25_Witness ==
  /\ lastOp.op = "clearCompleted"
  /\ lastOp.removed # {}
  /\ Len(tasks) = 1
  /\ tasks[1].status = "active"

----------------------------------------------------------------------------
(* The background flag *)

\* a task without its background field
EraseBackground(t) == [f \in DOMAIN t \ {"background"} |-> t[f]]

\* C21: two runs fed the same events and ticks, whose start events differ in
\* the background flag only, hold tables that are equal entry by entry in
\* every field but background
C21_BackgroundIsInformational ==
  /\ Len(tasks) = Len(twin)
  /\ \A k \in 1..Len(tasks) : EraseBackground(tasks[k]) = EraseBackground(twin[k])

\* a start event or a tick removed a task from both tables, and a task that
\* is background in one run and foreground in the other remains
C21_Witness ==
  /\ lastOp.op \in {"event", "interval"}
  /\ lastOp.removed # {}
  /\ \E k \in 1..Len(tasks) : tasks[k].background /\ ~twin[k].background

----------------------------------------------------------------------------
(* Visibility of the overlay *)

\* nothing is queued, no effect is due and handleMinimize is not in flight
Settled ==
  /\ pending = <<>>
  /\ queuedVisible = "none"
  /\ ~keepDue /\ ~hideDue
  /\ ~minimizing

\* C26: the auto-hide timer never hides the window while a task is active: at
\* no firing of the timer is a task active in the committed table
C26_NoAutoHideWhileActive ==
  lastOp.op = "hide_window" => ~lastOp.active

----------------------------------------------------------------------------
(* Settings storage *)

\* no setSettings / setIsLoaded call waits for a render and no effect is due
SettingsSettled ==
  settingsQueue = <<>> /\ ~queuedLoaded /\ ~loadDue /\ ~saveDue

\* C28: the stored item changes only in a step taken with isLoaded true, and
\* then to the JSON of the rendered settings; while isLoaded is false the
\* item stays as it is; once nothing is queued the item is the JSON of the
\* current settings
C28_NoWriteBeforeLoad ==
  /\ [](SettingsSettled => storage = Stringify(settings))
  /\ [][/\ ~isLoaded => storage' = storage
        /\ storage' # storage => storage' = Stringify(settings)
        /\ lastOp'.op = "settingsEffects" =>
             (lastOp'.wrote <=> (isLoaded /\ saveDue))]_vars

\* a configuration with opacity 50 was stored at startup, the user moved the
\* slider to 10, and the item holds both
C28_Witness ==
  /\ SettingsSettled
  /\ settings.opacity = 50
  /\ settings.maxRecentTasks = MaxRecentTasks
  /\ storage = Stringify(settings)

\* the settings the stored item leads to: the defaults, each key overridden
\* by the stored entry of that key when the item is a JSON object
SettingsFrom(item) ==
  [k \in DOMAIN DEFAULT_SETTINGS |->
     IF item.text = "object" /\ \E j \in 1..Len(item.entries) : item.entries[j][1] = k
     THEN item.entries[CHOOSE j \in 1..Len(item.entries) : item.entries[j][1] = k][2]
     ELSE DEFAULT_SETTINGS[k]]

\* C29: the render that sets isLoaded holds the defaults overridden key by
\* key by a stored JSON object, and the defaults when nothing, the empty
\* string or text that is not JSON is stored; and whenever the load effect
\* has run and nothing is queued, isLoaded is true
C29_LoadCompletes ==
  /\ []((~loadDue /\ settingsQueue = <<>> /\ ~queuedLoaded) => isLoaded)
  /\ [][(~isLoaded /\ isLoaded') => settings' = SettingsFrom(storage)]_vars

\* the item stored one key: the settings loaded hold it next to the defaults
C29_Witness ==
  /\ isLoaded
  /\ lastOp.op = "settingsCommit"
  /\ settings = [DEFAULT_SETTINGS EXCEPT !.maxRecentTasks = 3]

----------------------------------------------------------------------------
(* Notification window *)

\* C30: once a task-complete event of the window's task was handled, the
\* status is never active again and the progress stays 100 until the window
\* closes; and an event of another task changes neither
C30_CompleteIsFinal ==
  [][/\ (notifStatus # "active" /\ ~closed) =>
          (notifStatus' # "active" /\ progress' = 100)
     /\ (lastOp'.op \in {"download-progress", "task-complete"}
           /\ lastOp'.payload.task_id # windowTask) =>
          (progress' = progress /\ notifStatus' = notifStatus)]_vars

====
